---- MODULE Spec2Model ----
(***************************************************************************)
(* Model of fastpm/perturbation.py: class PerturbationGrowth.               *)
(*                                                                         *)
(* Numbers.  A float is modelled by an exact value <<n, d, s>> standing     *)
(* for (n/d)*sqrt(s): n/d a reduced fraction with d > 0 and s a squarefree  *)
(* positive integer (s = 1 for a rational).  d = 0 carries the IEEE         *)
(* specials: <<0,0,1>> is NaN, <<1,0,1>> is +inf, <<-1,0,1>> is -inf.       *)
(* Rounding is not modelled; signed zero is not modelled.                   *)
(*                                                                         *)
(* Grid.  numpy.logspace(-7, 0, 10240) is scaled down to the NGrid+1        *)
(* points 4^-NGrid, ..., 1/4, 1.  Logarithms are kept in units of ln 2,     *)
(* so log(2^k) = k, exp(k) = 2^k, and lna = <<-2*NGrid, ..., -2, 0>>.       *)
(***************************************************************************)
EXTENDS Integers, Sequences, FiniteSets, TLC

\* number of grid intervals (the source has 1024*10 - 1 of them)
NGrid == 2

----------------------------------------------------------------------------
(* Exact arithmetic standing for numpy float64 arithmetic                  *)

Abs(x) == IF x < 0 THEN -x ELSE x

Sgn(x) == IF x < 0 THEN -1 ELSE IF x > 0 THEN 1 ELSE 0

RECURSIVE GCD(_, _)
GCD(a, b) == IF b = 0 THEN a ELSE GCD(b, a % b)

NaN == <<0, 0, 1>>

Inf == <<1, 0, 1>>

Norm(n, d, s) ==
    IF d = 0 THEN <<Sgn(n), 0, 1>>
    ELSE IF n = 0 THEN <<0, 1, 1>>
    ELSE LET g == GCD(Abs(n), d) IN <<n \div g, d \div g, s>>

\* the float of the integer n
I(n) == <<n, 1, 1>>

\* the float n/d, d > 0
Q(n, d) == Norm(n, d, 1)

IsNaN(x) == x = NaN

IsFinite(x) == x[2] # 0

Neg(x) == <<-x[1], x[2], x[3]>>

\* x * y; inf * 0 = NaN, NaN * y = NaN
Mul(x, y) ==
    IF x[2] = 0 \/ y[2] = 0 THEN <<Sgn(x[1]) * Sgn(y[1]), 0, 1>>
    ELSE IF x[1] = 0 \/ y[1] = 0 THEN <<0, 1, 1>>
    ELSE LET g  == GCD(x[3], y[3])
             g1 == GCD(Abs(x[1]), y[2])
             g2 == GCD(Abs(y[1]), x[2])
             n1 == x[1] \div g1
             n2 == y[1] \div g2
             d1 == x[2] \div g2
             d2 == y[2] \div g1
             gg == GCD(g, d1 * d2)
         IN  Norm(n1 * n2 * (g \div gg), (d1 * d2) \div gg,
                  (x[3] \div g) * (y[3] \div g))

\* 1 / x; 1/0 = +inf, 1/inf = 0
Recip(x) ==
    IF x[2] = 0 THEN (IF x[1] = 0 THEN NaN ELSE <<0, 1, 1>>)
    ELSE IF x[1] = 0 THEN Inf
    ELSE LET g == GCD(x[2], x[3])
         IN  Norm(Sgn(x[1]) * (x[2] \div g), Abs(x[1]) * (x[3] \div g), x[3])

Div(x, y) == Mul(x, Recip(y))

\* x + y; inf + -inf = NaN.  Two finite non-zero values must carry the same
\* root: the program never adds values of different roots.
Add(x, y) ==
    CASE x = NaN \/ y = NaN -> NaN
      [] x[2] = 0 /\ y[2] = 0 -> IF x[1] = y[1] THEN x ELSE NaN
      [] x[2] = 0 /\ y[2] # 0 -> x
      [] x[2] # 0 /\ y[2] = 0 -> y
      [] x[2] # 0 /\ y[2] # 0 /\ x[1] = 0 -> y
      [] x[2] # 0 /\ y[2] # 0 /\ x[1] # 0 /\ y[1] = 0 -> x
      [] x[2] # 0 /\ y[2] # 0 /\ x[1] # 0 /\ y[1] # 0 /\ x[3] = y[3] ->
            LET g == GCD(x[2], y[2])
                L == (x[2] \div g) * y[2]
            IN  Norm(x[1] * (y[2] \div g) + y[1] * (x[2] \div g), L, x[3])

Sub(x, y) == Add(x, Neg(y))

\* x < y for finite rationals
Less(x, y) == x[1] * y[2] < y[1] * x[2]

\* the largest t >= 1 whose square divides m, searched from t upward
RECURSIVE SqPart(_, _)
SqPart(m, t) ==
    IF t * t > m THEN 1
    ELSE IF m % (t * t) = 0 THEN t * SqPart(m \div (t * t), t)
    ELSE SqPart(m, t + 1)

\* numpy.sqrt of a rational: NaN below zero, never a clamped value
Sqrt(x) ==
    IF x[2] = 0 THEN (IF x[1] = 1 THEN Inf ELSE NaN)
    ELSE IF x[1] < 0 THEN NaN
    ELSE IF x[1] = 0 THEN <<0, 1, 1>>
    ELSE LET m == x[1] * x[2]
             t == SqPart(m, 2)
         IN  Norm(t, x[2], m \div (t * t))

\* x ** e for an integer e (e may be negative)
RECURSIVE Pow(_, _)
Pow(x, e) ==
    IF e = 0 THEN I(1)
    ELSE IF e < 0 THEN Recip(Pow(x, -e))
    ELSE Mul(x, Pow(x, e - 1))

\* numpy.exp on the lattice of logarithms: exp(k ln 2) = 2^k
exp(k) == Pow(I(2), k)

\* numpy.log on the powers of two: log(2^k) = k ln 2
RECURSIVE log(_)
log(a) ==
    IF a = I(1) THEN 0
    ELSE IF Less(a, I(1)) THEN log(Mul(a, I(2))) - 1
    ELSE log(Div(a, I(2))) + 1

----------------------------------------------------------------------------
(* The program state                                                       *)

\* the PerturbationGrowth objects a caller may hold
Instances == {1, 2}

\* the externally supplied cosmology objects
CosmoIds == {1}

\* (Om0, Ok0, Ode0) a cosmology object may carry: flat matter-only (twice),
\* an open matter + curvature model, de Sitter, the empty model (E = 0, the
\* growth equations are 0/0) and a model whose radicand is negative
Cosmologies ==
    { [Om0 |-> I(1), Ok0 |-> I(0),  Ode0 |-> I(0)],
      [Om0 |-> I(2), Ok0 |-> I(0),  Ode0 |-> I(0)],
      [Om0 |-> I(1), Ok0 |-> I(8),  Ode0 |-> I(0)],
      [Om0 |-> I(0), Ok0 |-> I(0),  Ode0 |-> I(1)],
      [Om0 |-> I(0), Ok0 |-> I(0),  Ode0 |-> I(0)],
      [Om0 |-> I(0), Ok0 |-> I(-1), Ode0 |-> I(0)] }

\* the scale factors queries are made at: 2^k for every k from one step
\* below the first grid point to a = 4, the grid points being the even k in
\* -2*NGrid..0 and the odd k lying halfway (in ln a) between two of them
QueryA == { exp(k) : k \in (-2 * NGrid - 1)..2 }

\* the derivative orders callers pass; the tables have columns 0..2
Orders == 0..3

None == [none |-> TRUE]

VARIABLES
    cosmoObj,   \* the attributes of each cosmology object
    models,     \* each instance's fields, or None before it is constructed
    result      \* the last call: method, instance, arguments, outcome

vars == <<cosmoObj, models, result>>

----------------------------------------------------------------------------
(* Background expansion                                                    *)

\* efunc clamping a negative radicand to its absolute value
efunc_clamped(self, a) ==
    LET root(r) == Sqrt(<<Abs(r[1]), r[2], r[3]>>)
    IN  root(Add(Add(Mul(Pow(a, -3), self.Om0), Mul(self.Ok0, Pow(a, -2))),
                 self.Ode0))

\* efunc reading the parameters through the stored cosmology object
efunc_byref(self, a) ==
    Sqrt(Add(Add(Mul(Pow(a, -3), cosmoObj[self.cosmo].Om0),
                 Mul(cosmoObj[self.cosmo].Ok0, Pow(a, -2))),
             cosmoObj[self.cosmo].Ode0))

efunc(self, a) ==
    Sqrt(Add(Add(Mul(Pow(a, -3), self.Om0), Mul(self.Ok0, Pow(a, -2))),
             self.Ode0))

\* efunc_prime without the factor 0.5
efunc_prime_nohalf(self, a) ==
    Mul(Div(I(1), efunc(self, a)),
        Add(Mul(Mul(I(-3), Pow(a, -4)), self.Om0),
            Mul(Mul(I(-2), self.Ok0), Pow(a, -3))))

efunc_prime(self, a) ==
    LET e == efunc(self, a)
    IN  Mul(Div(Q(1, 2), e),
            Add(Mul(Mul(I(-3), Pow(a, -4)), self.Om0),
                Mul(Mul(I(-2), self.Ok0), Pow(a, -3))))

E(self, a, order) ==
    IF order = 0 THEN efunc(self, a)
    ELSE Mul(efunc_prime(self, a), a)

Hfac(self, a) == Sub(I(-2), Div(E(self, a, 1), E(self, a, 0)))

Om(self, a) == Div(Mul(self.Om0, Pow(a, -3)), Pow(E(self, a, 0), 2))

----------------------------------------------------------------------------
(* The growth equations and their solution                                 *)

\* y = <<D1, F1, D2, F2>>; the result is <<D1p, F1p, D2p, F2p>>
ode(self, y, lna) ==
    LET rhs(D1, F1, D2, F2, hfac, omega) ==
            LET F1p == Add(Mul(hfac, F1), Mul(Mul(Q(3, 2), omega), D1))
                D1p == F1
                F2p == Sub(Add(Mul(hfac, F2), Mul(Mul(Q(3, 2), omega), D2)),
                           Mul(Mul(Q(3, 2), omega), Pow(D1, 2)))
                D2p == D1
            IN  <<D1p, F1p, D2p, F2p>>
        at(a) == rhs(y[1], y[2], y[3], y[4], Hfac(self, a), Om(self, a))
    IN  at(exp(lna))

\* scipy's odeint(self.ode, y0, t): one state per entry of t, the first being
\* y0.  The library integrator is stood for by one explicit step per grid
\* interval taken in the variable a, y(a') = y(a) + (a' - a) * dy/da with
\* dy/da = ode(y, ln a) / a; it is exact for solutions linear in a.  A
\* right-hand side that is not finite makes the following states not finite,
\* which odeint reports by a printed warning only.
RECURSIVE odeint(_, _, _)
odeint(self, y0, t) ==
    LET n == Len(t)
        step(yi, dy, h) == <<Add(yi[1], Mul(h, dy[1])), Add(yi[2], Mul(h, dy[2])),
                             Add(yi[3], Mul(h, dy[3])), Add(yi[4], Mul(h, dy[4]))>>
        next(yi) == step(yi, ode(self, yi, t[n - 1]),
                         Sub(Div(exp(t[n]), exp(t[n - 1])), I(1)))
        extend(prev) == Append(prev, next(prev[n - 1]))
    IN  IF n = 1 THEN <<y0>>
        ELSE extend(odeint(self, y0, SubSeq(t, 1, n - 1)))

\* the initial condition of _solve
y0(self) ==
    LET at(a0) ==
            <<a0, a0, Mul(Q(-3, 7), Pow(a0, 2)), Mul(Q(-6, 7), Pow(a0, 2))>>
    IN  at(exp(self.lna[1]))

\* the loop of _solve over the first n solved states: the tables v1, v2
\* before normalisation, as <<v1, v2>>
RECURSIVE rows(_, _, _)
rows(self, y, n) ==
    LET append(v, D1, F1, D2, F2, yp) ==
            <<Append(v[1], <<D1, F1, yp[2]>>), Append(v[2], <<D2, F2, yp[4]>>)>>
    IN  IF n = 0 THEN << <<>>, <<>> >>
        ELSE append(rows(self, y, n - 1), y[n][1], y[n][2], y[n][3], y[n][4],
                    ode(self, y[n], self.lna[n]))

\* v1, v2 of _solve before normalisation
raw(self) ==
    LET loop(y) == rows(self, y, Len(y))
    IN  loop(odeint(self, y0(self), self.lna))

\* the array v with every entry divided by the scalar d
RECURSIVE divide(_, _)
divide(v, d) ==
    IF v = <<>> THEN <<>>
    ELSE << <<Div(v[1][1], d), Div(v[1][2], d), Div(v[1][3], d)>> >>
            \o divide(Tail(v), d)

\* normalisation by the first grid point instead of the last
normalize_first(v) == divide(v, v[1][1])

\* v /= v[-1][0]
normalize(v) == divide(v, v[Len(v)][1])

_solve(self) ==
    LET both(v) == <<normalize(v[1]), normalize(v[2])>>
    IN  both(raw(self))

\* numpy.log(numpy.logspace(-7, 0, 1024*10)), scaled down
lnaGrid == [i \in 1..(NGrid + 1) |-> 2 * (i - 1 - NGrid)]

\* __init__(self, cosmo): the object constructed from cosmology object c
PerturbationGrowth(c) ==
    LET solved(self, s) ==
            [cosmo |-> self.cosmo, Om0 |-> self.Om0, Ok0 |-> self.Ok0,
             Ode0 |-> self.Ode0, lna |-> self.lna, _D1 |-> s[1], _D2 |-> s[2]]
        init(self) == solved(self, _solve(self))
    IN  init([cosmo |-> c,
              Om0 |-> cosmoObj[c].Om0,
              Ok0 |-> cosmoObj[c].Ok0,
              Ode0 |-> cosmoObj[c].Ode0,
              lna |-> lnaGrid])

----------------------------------------------------------------------------
(* Queries                                                                 *)

\* the largest j with xp[j] <= x, for xp[1] <= x
RECURSIVE search(_, _, _)
search(x, xp, j) ==
    IF j < Len(xp) /\ xp[j + 1] <= x THEN search(x, xp, j + 1) ELSE j

\* interpolation that extends the first and last segments beyond the grid
interp_extrapolate(x, xp, fp) ==
    LET j == IF x < xp[1] THEN 1
             ELSE IF x >= xp[Len(xp)] THEN Len(xp) - 1
             ELSE search(x, xp, 1)
        line(slope) == Add(Mul(slope, I(x - xp[j])), fp[j])
    IN  line(Div(Sub(fp[j + 1], fp[j]), I(xp[j + 1] - xp[j])))

\* numpy.interp(x, xp, fp) for a scalar x and increasing xp
interp(x, xp, fp) ==
    IF x < xp[1] THEN fp[1]
    ELSE IF x > xp[Len(xp)] THEN fp[Len(fp)]
    ELSE LET j == search(x, xp, 1)
         IN  IF j = Len(xp) \/ xp[j] = x THEN fp[j]
             ELSE LET slope == Div(Sub(fp[j + 1], fp[j]), I(xp[j + 1] - xp[j]))
                      r1 == Add(Mul(slope, I(x - xp[j])), fp[j])
                      r2 == Add(Mul(slope, I(x - xp[j + 1])), fp[j + 1])
                  IN  IF ~IsNaN(r1) THEN r1
                      ELSE IF IsNaN(r2) /\ fp[j] = fp[j + 1] THEN fp[j]
                      ELSE r2

\* the outcome of indexing a table column that does not exist
IndexError == <<"IndexError">>

\* self._D1[:, order]
column(tab, order) == [i \in DOMAIN tab |-> tab[i][order + 1]]

D1(self, a, order) ==
    IF order > 2 THEN IndexError
    ELSE interp(log(a), self.lna, column(self._D1, order))

D2(self, a, order) ==
    IF order > 2 THEN IndexError
    ELSE interp(log(a), self.lna, column(self._D2, order))

f1(self, a) == Div(D1(self, a, 1), D1(self, a, 0))

f2(self, a) == Div(D2(self, a, 1), D2(self, a, 0))

Gp(self, a) == D1(self, a, 0)

gp(self, a) == Div(D1(self, a, 1), a)

Gf(self, a) == Mul(Mul(D1(self, a, 1), Pow(a, 2)), E(self, a, 0))

\* gf with the derivative of a^2 taken as a^2 instead of 2 a^2
gf_nofactor(self, a) ==
    Mul(Div(I(1), a),
        Add(Mul(Mul(D1(self, a, 2), Pow(a, 2)), E(self, a, 0)),
            Mul(D1(self, a, 1),
                Add(Mul(Pow(a, 2), E(self, a, 1)),
                    Mul(Pow(a, 2), E(self, a, 0))))))

gf(self, a) ==
    Mul(Div(I(1), a),
        Add(Mul(Mul(D1(self, a, 2), Pow(a, 2)), E(self, a, 0)),
            Mul(D1(self, a, 1),
                Add(Mul(Pow(a, 2), E(self, a, 1)),
                    Mul(Mul(I(2), Pow(a, 2)), E(self, a, 0))))))

----------------------------------------------------------------------------
(* Operations                                                              *)

NoCall == [op |-> "none", inst |-> 0, a |-> I(1), order |-> 0, value |-> I(0)]

Call(op, i, a, order, value) ==
    [op |-> op, inst |-> i, a |-> a, order |-> order, value |-> value]

Init ==
    /\ cosmoObj \in [CosmoIds -> Cosmologies]
    /\ models = [i \in Instances |-> None]
    /\ result = NoCall

\* a caller changes the attributes of a cosmology object it owns
SetCosmo(c, p) ==
    /\ result = NoCall
    /\ cosmoObj[c] # p
    /\ cosmoObj' = [cosmoObj EXCEPT ![c] = p]
    /\ UNCHANGED <<models, result>>

\* i = PerturbationGrowth(cosmo)
Construct(i, c) ==
    /\ result = NoCall
    /\ models[i] = None
    /\ models' = [models EXCEPT ![i] = PerturbationGrowth(c)]
    /\ result' = Call("__init__", i, I(1), 0, I(0))
    /\ UNCHANGED cosmoObj

\* D1 keeping its last answer in the table it reads
CallD1_caching(i, a, order) ==
    /\ result = NoCall
    /\ models[i] # None
    /\ result' = Call("D1", i, a, order, D1(models[i], a, order))
    /\ models' = [models EXCEPT ![i]._D1[1][1] = D1(models[i], a, 0)]
    /\ UNCHANGED cosmoObj

CallD1(i, a, order) ==
    /\ result = NoCall
    /\ models[i] # None
    /\ result' = Call("D1", i, a, order, D1(models[i], a, order))
    /\ UNCHANGED <<cosmoObj, models>>

CallD2(i, a, order) ==
    /\ result = NoCall
    /\ models[i] # None
    /\ result' = Call("D2", i, a, order, D2(models[i], a, order))
    /\ UNCHANGED <<cosmoObj, models>>

Callf1(i, a) ==
    /\ result = NoCall
    /\ models[i] # None
    /\ result' = Call("f1", i, a, 0, f1(models[i], a))
    /\ UNCHANGED <<cosmoObj, models>>

Callf2(i, a) ==
    /\ result = NoCall
    /\ models[i] # None
    /\ result' = Call("f2", i, a, 0, f2(models[i], a))
    /\ UNCHANGED <<cosmoObj, models>>

CallGp(i, a) ==
    /\ result = NoCall
    /\ models[i] # None
    /\ result' = Call("Gp", i, a, 0, Gp(models[i], a))
    /\ UNCHANGED <<cosmoObj, models>>

Callgp(i, a) ==
    /\ result = NoCall
    /\ models[i] # None
    /\ result' = Call("gp", i, a, 0, gp(models[i], a))
    /\ UNCHANGED <<cosmoObj, models>>

CallGf(i, a) ==
    /\ result = NoCall
    /\ models[i] # None
    /\ result' = Call("Gf", i, a, 0, Gf(models[i], a))
    /\ UNCHANGED <<cosmoObj, models>>

Callgf(i, a) ==
    /\ result = NoCall
    /\ models[i] # None
    /\ result' = Call("gf", i, a, 0, gf(models[i], a))
    /\ UNCHANGED <<cosmoObj, models>>

CallE(i, a, order) ==
    /\ result = NoCall
    /\ models[i] # None
    /\ result' = Call("E", i, a, order, E(models[i], a, order))
    /\ UNCHANGED <<cosmoObj, models>>

CallHfac(i, a) ==
    /\ result = NoCall
    /\ models[i] # None
    /\ result' = Call("Hfac", i, a, 0, Hfac(models[i], a))
    /\ UNCHANGED <<cosmoObj, models>>

CallOm(i, a) ==
    /\ result = NoCall
    /\ models[i] # None
    /\ result' = Call("Om", i, a, 0, Om(models[i], a))
    /\ UNCHANGED <<cosmoObj, models>>

\* the matter-domination state at scale factor a, the shape of _solve's y0
MatterState(a) ==
    <<a, a, Mul(Q(-3, 7), Pow(a, 2)), Mul(Q(-6, 7), Pow(a, 2))>>

\* ode called on the matter-domination state at a; the call is recorded with
\* the state's D1 = a as its argument
CallOde(i, a) ==
    /\ result = NoCall
    /\ models[i] # None
    /\ result' = Call("ode", i, a, 0, ode(models[i], MatterState(a), log(a)))
    /\ UNCHANGED <<cosmoObj, models>>

\* the caller takes the returned value; the program is single-threaded, so
\* the next statement runs only then
Return ==
    /\ result # NoCall
    /\ result' = NoCall
    /\ UNCHANGED <<cosmoObj, models>>

Next ==
    \/ \E c \in CosmoIds, p \in Cosmologies : SetCosmo(c, p)
    \/ \E i \in Instances, c \in CosmoIds : Construct(i, c)
    \/ \E i \in Instances, a \in QueryA, order \in Orders : CallD1(i, a, order)
    \/ \E i \in Instances, a \in QueryA, order \in Orders : CallD2(i, a, order)
    \/ \E i \in Instances, a \in QueryA : Callf1(i, a)
    \/ \E i \in Instances, a \in QueryA : Callf2(i, a)
    \/ \E i \in Instances, a \in QueryA : CallGp(i, a)
    \/ \E i \in Instances, a \in QueryA : Callgp(i, a)
    \/ \E i \in Instances, a \in QueryA : CallGf(i, a)
    \/ \E i \in Instances, a \in QueryA : Callgf(i, a)
    \/ \E i \in Instances, a \in QueryA, order \in 0..1 : CallE(i, a, order)
    \/ \E i \in Instances, a \in QueryA : CallHfac(i, a)
    \/ \E i \in Instances, a \in QueryA : CallOm(i, a)
    \/ \E i \in Instances, a \in QueryA : CallOde(i, a)
    \/ Return

Spec == Init /\ [][Next]_vars

----------------------------------------------------------------------------
(* Vocabulary of the properties                                            *)

QueryOps == {"D1", "D2", "f1", "f2", "Gp", "gp", "Gf", "gf", "E", "Hfac", "Om"}

\* the instance the last call was made on
Callee == models[result.inst]

Last == NGrid + 1

IsFiniteNonZero(x) == x[2] # 0 /\ x[1] # 0

OnGrid(self, a) == \E i \in DOMAIN self.lna : self.lna[i] = log(a)

BelowGrid(self, a) == log(a) < self.lna[1]

AboveGrid(self, a) == log(a) > self.lna[Last]

FlatMatterOnly(self) ==
    self.Ok0 = I(0) /\ self.Ode0 = I(0) /\ self.Om0[1] > 0 /\ self.Om0[2] # 0

\* Om0 a^-3 + Ok0 a^-2 + Ode0, the quantity under the root
Radicand(self, a) ==
    Add(Add(Div(self.Om0, Pow(a, 3)), Div(self.Ok0, Pow(a, 2))), self.Ode0)

IsNegative(x) == x[2] # 0 /\ x[1] < 0

\* the solved states y of the construction of self
Solution(self) == odeint(self, y0(self), self.lna)

----------------------------------------------------------------------------
\* the table tab is the raw table v divided by v's last zeroth-column entry
C1_TableNormalized(tab, v) ==
    IsFiniteNonZero(v[Last][1]) =>
        /\ \A i \in 1..Last, c \in 1..3 : tab[i][c] = Div(v[i][c], v[Last][1])
        /\ tab[Last][1] = I(1)

\* C1: after construction, when the raw last D1 (D2) is finite and non-zero,
\* every entry of the D1 (D2) table is the raw entry divided by that value,
\* the last zeroth-column entry is exactly 1, and D1(1.0, 0) (D2(1.0, 0))
\* returns exactly 1.
C1_Normalization ==
    /\ result.op = "__init__" =>
          LET check(v) == /\ C1_TableNormalized(Callee._D1, v[1])
                          /\ C1_TableNormalized(Callee._D2, v[2])
          IN  check(raw(Callee))
    /\ result.op \in {"D1", "D2"} /\ result.a = I(1) /\ result.order = 0 =>
          LET check(v) ==
                  IsFiniteNonZero(v[Last][1]) => result.value = I(1)
          IN  check(raw(Callee)[IF result.op = "D1" THEN 1 ELSE 2])

\* a query at a = 1 answered 1 by a model whose raw last value was not 1
C1_Witness ==
    /\ result.op = "D1" /\ result.a = I(1) /\ result.order = 0
    /\ result.value = I(1)
    /\ IsFiniteNonZero(raw(Callee)[1][Last][1])
    /\ raw(Callee)[1][Last][1] # I(1)

----------------------------------------------------------------------------
\* the integration of self's construction failed: a solved state is not finite
FailedSolve(self) ==
    LET bad(y) == \E i \in DOMAIN y, j \in 1..4 : ~IsFinite(y[i][j])
    IN  bad(Solution(self))

\* C2: a failed integration (a solved state that is not finite) ends in a
\* construction error, so no query is ever answered by a model whose
\* integration failed.
C2_NoQueryAfterFailedSolve ==
    result.op \in QueryOps => ~FailedSolve(Callee)

----------------------------------------------------------------------------
\* the table the last D1 or D2 query read
C3_Table == IF result.op = "D1" THEN Callee._D1 ELSE Callee._D2

\* C3: for orders 0..2, D1 and D2 never produce an error outcome; below the
\* grid they return the first table entry (the same as the query at the
\* first grid point), above the grid the last table entry.
C3_Clamp ==
    result.op \in {"D1", "D2"} /\ result.order \in 0..2 =>
        /\ result.value # IndexError
        /\ BelowGrid(Callee, result.a) =>
              /\ result.value = C3_Table[1][result.order + 1]
              /\ result.value =
                    (IF result.op = "D1"
                     THEN D1(Callee, exp(Callee.lna[1]), result.order)
                     ELSE D2(Callee, exp(Callee.lna[1]), result.order))
        /\ AboveGrid(Callee, result.a) =>
              result.value = C3_Table[Last][result.order + 1]

\* a below-grid D1 query answered from a table whose first two rows differ,
\* so that clamping and extrapolating give different answers
C3_Witness ==
    /\ result.op = "D1" /\ result.order = 0
    /\ BelowGrid(Callee, result.a)
    /\ IsFinite(result.value)
    /\ Callee._D1[1][1] # Callee._D1[2][1]
    /\ result.value = Callee._D1[1][1]

----------------------------------------------------------------------------
\* columns 1 and 2 of both raw tables of self against ode at the solved states
C4_RowsAreDerivatives(self) ==
    LET check(y, v) ==
            \A i \in 1..Last :
                LET yp == ode(self, y[i], self.lna[i])
                IN  /\ v[1][i][2] = yp[1]
                    /\ v[1][i][3] = yp[2]
                    /\ v[2][i][2] = yp[3]
                    /\ v[2][i][3] = yp[4]
    IN  check(Solution(self), raw(self))

\* C4: at every grid point the second column of each raw table is the
\* derivative the ODE system assigns to the first-column variable (D1', D2')
\* and the third column the derivative it assigns to the second-column
\* variable (F1', F2').
C4_ColumnsAreOdeDerivatives ==
    result.op = "__init__" /\ ~FailedSolve(Callee) =>
        C4_RowsAreDerivatives(Callee)

----------------------------------------------------------------------------
\* the value method op returns on self for the arguments (a, order)
Answer(op, self, a, order) ==
    CASE op = "D1" -> D1(self, a, order)
      [] op = "D2" -> D2(self, a, order)
      [] op = "f1" -> f1(self, a)
      [] op = "f2" -> f2(self, a)
      [] op = "Gp" -> Gp(self, a)
      [] op = "gp" -> gp(self, a)
      [] op = "Gf" -> Gf(self, a)
      [] op = "gf" -> gf(self, a)
      [] op = "E" -> E(self, a, order)
      [] op = "Hfac" -> Hfac(self, a)
      [] op = "Om" -> Om(self, a)

\* a step that answers a query changes no object and answers by Answer
C5_QueryStep ==
    result' # result /\ result'.op \in QueryOps =>
        /\ models' = models
        /\ cosmoObj' = cosmoObj
        /\ result'.value =
              Answer(result'.op, models[result'.inst], result'.a, result'.order)

----------------------------------------------------------------------------
\* (1/a) (u' v w + u v' w + u v w') for u = D1(a,1), v = a^2, w = E(a,0)
C6_ProductRule(self, a) ==
    LET rule(u, up, v, vp, w, wp) ==
            Div(Add(Add(Mul(Mul(up, v), w), Mul(Mul(u, vp), w)),
                    Mul(Mul(u, v), wp)),
                a)
    IN  rule(D1(self, a, 1), D1(self, a, 2), Pow(a, 2), Mul(I(2), Pow(a, 2)),
             E(self, a, 0), E(self, a, 1))

\* C6: gf(a) = (1/a) [ D1(a,2) a^2 E(a,0) + D1(a,1) (2 a^2 E(a,0) +
\* a^2 E(a,1)) ], the product rule applied to Gf = u v w with u = D1(a,1),
\* v = a^2, w = E(a,0) and ln-a derivatives u' = D1(a,2), v' = 2 a^2,
\* w' = E(a,1); for a flat matter-only model, where Gf is proportional to
\* a^(3/2) on the grid, this is gf = (3/2) Gf / a.
C6_gfIsDerivativeOfGf ==
    result.op = "gf" =>
        /\ result.value = C6_ProductRule(Callee, result.a)
        /\ FlatMatterOnly(Callee) =>
              result.value = Div(Mul(Q(3, 2), Gf(Callee, result.a)), result.a)

\* gf answered with a finite non-zero value by a model that is not flat
\* matter-only
C6_Witness ==
    /\ result.op = "gf"
    /\ ~FlatMatterOnly(Callee)
    /\ IsFiniteNonZero(result.value)
    /\ IsFiniteNonZero(E(Callee, result.a, 1))
    /\ result.value = C6_ProductRule(Callee, result.a)

----------------------------------------------------------------------------
----------------------------------------------------------------------------
\* C8: when the radicand is negative at a, efunc(a) is NaN (not a clamped
\* real), and E(a,0), E(a,1), Hfac(a) and Om(a) are NaN too.
C8_DomainErrorPropagates ==
    (result.op \in {"E", "Hfac", "Om"} /\ IsNegative(Radicand(Callee, result.a)))
        => /\ IsNaN(result.value)
           /\ IsNaN(efunc(Callee, result.a))
           /\ IsNaN(efunc_prime(Callee, result.a))

\* Hfac asked at an a where the radicand is negative
C8_Witness ==
    /\ result.op = "Hfac"
    /\ IsNegative(Radicand(Callee, result.a))
    /\ IsNaN(result.value)

----------------------------------------------------------------------------
\* C9: for a flat matter-only model, the ODE system evaluated at
\* (a, a, -3/7 a^2, -6/7 a^2) returns (a, a, -6/7 a^2, -12/7 a^2).
C9_InitialConditionOnSolution ==
    result.op = "ode" /\ FlatMatterOnly(Callee) =>
        result.value = <<result.a, result.a,
                         Mul(Q(-6, 7), Pow(result.a, 2)),
                         Mul(Q(-12, 7), Pow(result.a, 2))>>

----------------------------------------------------------------------------
\* no step changes a constructed model, and the background answers are
\* those of the stored parameters
C10_Step ==
    /\ \A i \in Instances : models[i] # None => models'[i] = models[i]
    /\ result.op = "E" /\ result.order = 0 =>
          result.value = Sqrt(Radicand(Callee, result.a))
    /\ result.op = "Om" =>
          result.value = Div(Div(Callee.Om0, Pow(result.a, 3)),
                             Pow(Sqrt(Radicand(Callee, result.a)), 2))
    /\ result.op = "Gf" =>
          result.value = Mul(Mul(D1(Callee, result.a, 1), Pow(result.a, 2)),
                             Sqrt(Radicand(Callee, result.a)))
    /\ result.op \in {"Gf", "gf"} =>
          LET same(s) == Callee._D1 = s[1] /\ Callee._D2 = s[2]
          IN  same(_solve(Callee))

\* C10: a change of the cosmology object's Om0, Ok0 or Ode0, or the
\* construction of another instance, changes no field of an already
\* constructed model, and the answers of E, Om, Gf and gf are those of the
\* parameters stored at construction, with which the tables agree.
C10_ParametersHeldByValue == [][C10_Step]_vars

\* E answered from the construction-time parameters after the cosmology
\* object the model was built from has been given other parameters
C10_Witness ==
    /\ result.op = "E" /\ result.order = 0
    /\ cosmoObj[Callee.cosmo] #
          [Om0 |-> Callee.Om0, Ok0 |-> Callee.Ok0, Ode0 |-> Callee.Ode0]
    /\ IsFiniteNonZero(result.value)
    /\ result.value = Sqrt(Radicand(Callee, result.a))
    /\ Callee._D1 = _solve(Callee)[1]

====
